---- MODULE Spec2Model ----
(***************************************************************************)
(* Model of the HuggingFace batch-upload-commit endpoint                   *)
(* (src/unnamed/part_000: onRequestPost and its helpers)                   *)
(* and of the MIME helpers (src/functions/utils/mimeType.js).              *)
(*                                                                         *)
(* Strings are sequences of tokens.  A token is one character, except the  *)
(* token "manage@", which stands for that seven-character text, and the    *)
(* token "data:", which stands for that five-character text.  JavaScript   *)
(* values whose type the code inspects are records [t, s]: t is the result *)
(* of typeof ("string") or "null", s the text.                             *)
(***************************************************************************)
EXTENDS Integers, Sequences, FiniteSets, TLC

VARIABLES
    db,          \* the key-value store: key -> [value, metadata]
    commits,     \* the backend repository: how many transactions it has registered
    hfSettings,  \* uploadConfig.huggingface as the configuration provider returns it
    pc,          \* per handler: the await the handler is suspended at
    input,       \* per handler: the request body and the caller's authorization
    local,       \* per handler: the handler's local variables
    resp,        \* per handler: the response returned
    log,         \* per handler: the calls to collaborators made so far, in order
    hist,        \* per handler: what was true of its requestId when it started
    firstResp,   \* per requestId: the first success response computed for it
    committed,   \* the requestIds for which a backend transaction has succeeded
    norm,        \* the folder-normalization experiment: [stage, input, once, twice]
    mime         \* the resolveMimeType experiment: [stage, arguments, result]

vars == <<db, commits, hfSettings, pc, input, local, resp, log, hist,
          firstResp, committed, norm, mime>>

----------------------------------------------------------------------------
(* Bounds of the model. *)

\* env.HF_BATCH_MAX_FILES as deployed in the model
maxFiles == 2
\* env.HF_BATCH_MAX_TOTAL_SIZE as deployed in the model (bytes)
maxTotalSize == 4
\* env.HF_BATCH_MAX_SINGLE_FILE_SIZE as deployed in the model (bytes)
maxSingleFileSize == 3
\* no request starts once this many transactions are registered
MaxCommits == 2
\* longest folder text, in tokens, of the folder-normalization experiment
MaxFolderLen == 3
\* the longest payload text in the payload experiment
MaxPayloadLen == 6
\* the longest declared type drawn from the alphabet in the resolveMimeType
\* experiment
MaxMimeLen == 3

\* const limits of the source
MaxNameLength == 255
MaxRequestIdLength == 128

----------------------------------------------------------------------------
(* JavaScript values and strings *)

Str(s) == [t |-> "string", s |-> s]
JsNull == [t |-> "null", s |-> <<>>]
JsUndefined == [t |-> "undefined", s |-> <<>>]
\* a function object, such as the one an object literal inherits as
\* `constructor`
JsFunction == [t |-> "function", s |-> <<>>]

RECURSIVE TrimLeft(_)
TrimLeft(s) == IF s # <<>> /\ Head(s) = " " THEN TrimLeft(Tail(s)) ELSE s

RECURSIVE TrimRight(_)
TrimRight(s) ==
    IF s # <<>> /\ s[Len(s)] = " " THEN TrimRight(SubSeq(s, 1, Len(s) - 1)) ELSE s

\* String.prototype.trim
Trim(s) == TrimRight(TrimLeft(s))

\* .replace(/^\/+/, '')
RECURSIVE StripLeadingSlashes(_)
StripLeadingSlashes(s) ==
    IF s # <<>> /\ Head(s) = "/" THEN StripLeadingSlashes(Tail(s)) ELSE s

\* .replace(/\/+$/, '')
RECURSIVE StripTrailingSlashes(_)
StripTrailingSlashes(s) ==
    IF s # <<>> /\ s[Len(s)] = "/"
    THEN StripTrailingSlashes(SubSeq(s, 1, Len(s) - 1))
    ELSE s

\* .replace(/\/{2,}/g, '/')
RECURSIVE CollapseSlashes(_)
CollapseSlashes(s) ==
    IF Len(s) < 2 THEN s
    ELSE IF s[1] = "/" /\ s[2] = "/" THEN CollapseSlashes(Tail(s))
    ELSE <<s[1]>> \o CollapseSlashes(Tail(s))

\* String.prototype.split(sep) for a one-token separator
RECURSIVE Split(_, _)
Split(s, sep) ==
    IF \E i \in 1..Len(s) : s[i] = sep
    THEN LET i == CHOOSE k \in 1..Len(s) :
                      s[k] = sep /\ \A j \in 1..(k - 1) : s[j] # sep
         IN  <<SubSeq(s, 1, i - 1)>> \o Split(SubSeq(s, i + 1, Len(s)), sep)
    ELSE <<s>>

StartsWith(s, p) == Len(s) >= Len(p) /\ SubSeq(s, 1, Len(p)) = p

Includes(s, c) == \E i \in 1..Len(s) : s[i] = c

ReservedPrefix == <<"manage@">>

----------------------------------------------------------------------------
(* Errors and results *)

NoError == [code |-> "", message |-> "", status |-> 0, stage |-> "",
            uploadedFiles |-> <<>>, retryAfterSeconds |-> 0]

\* createApiError(code, message, status); the message is kept as a short tag
createApiError(code, message, status) ==
    [NoError EXCEPT !.code = code, !.message = message, !.status = status]

Ok(v) == [ok |-> TRUE, value |-> v, error |-> NoError]
Throw(e) == [ok |-> FALSE, value |-> <<>>, error |-> e]

----------------------------------------------------------------------------
(* The normalizers *)

IllegalSegment(segment) ==
    segment = <<>> \/ segment = <<".">> \/ segment = <<".", ".">>

ReservedSegment(segment) == StartsWith(segment, ReservedPrefix)

normalizeUploadFolder(uploadFolder) ==
    IF uploadFolder.t = "null" THEN Ok(<<>>)
    ELSE LET normalized == CollapseSlashes(StripTrailingSlashes(
                               StripLeadingSlashes(Trim(uploadFolder.s))))
             segments == Split(normalized, "/")
         IN  IF normalized = <<>> THEN Ok(<<>>)
             ELSE IF \E i \in 1..Len(segments) :
                        IllegalSegment(segments[i]) \/ ReservedSegment(segments[i])
                  THEN Throw(createApiError("INVALID_REQUEST", "uploadFolder", 400))
             ELSE Ok(normalized)

normalizeFileName(name) ==
    IF name.t # "string"
    THEN Throw(createApiError("INVALID_REQUEST", "name not a string", 400))
    ELSE LET trimmed == Trim(name.s)
         IN  IF trimmed = <<>>
             THEN Throw(createApiError("INVALID_REQUEST", "name empty", 400))
             ELSE IF Len(trimmed) > MaxNameLength
             THEN Throw(createApiError("INVALID_REQUEST", "name too long", 400))
             ELSE IF trimmed = <<".">> \/ trimmed = <<".", ".">>
             THEN Throw(createApiError("INVALID_REQUEST", "name . or ..", 400))
             ELSE IF Includes(trimmed, "/") \/ Includes(trimmed, "\\")
             THEN Throw(createApiError("INVALID_REQUEST", "name has separator", 400))
             ELSE IF StartsWith(trimmed, ReservedPrefix)
             THEN Throw(createApiError("INVALID_REQUEST", "name reserved", 400))
             ELSE Ok(trimmed)

\* String.prototype.indexOf: 0 when absent (positions are 1-based here)
IndexOf(s, c) ==
    IF Includes(s, c)
    THEN CHOOSE k \in 1..Len(s) : s[k] = c /\ \A j \in 1..(k - 1) : s[j] # c
    ELSE 0

\* .replace(/\s+/g, '')
RECURSIVE RemoveWhitespace(_)
RemoveWhitespace(s) ==
    IF s = <<>> THEN <<>>
    ELSE IF Head(s) = " " THEN RemoveWhitespace(Tail(s))
    ELSE <<Head(s)>> \o RemoveWhitespace(Tail(s))

normalizeContentBase64(contentBase64) ==
    IF contentBase64.t # "string" \/ Trim(contentBase64.s) = <<>>
    THEN Throw(createApiError("INVALID_REQUEST", "contentBase64 required", 400))
    ELSE LET value == Trim(contentBase64.s)
             commaIndex == IndexOf(value, ",")
             rawBase64 == IF StartsWith(value, <<"data:">>) /\ commaIndex # 0
                          THEN SubSeq(value, commaIndex + 1, Len(value))
                          ELSE value
         IN  Ok(RemoveWhitespace(rawBase64))

EndsWith(s, p) ==
    Len(s) >= Len(p) /\ SubSeq(s, Len(s) - Len(p) + 1, Len(s)) = p

Max(a, b) == IF a >= b THEN a ELSE b

\* estimateBase64Size without the padding correction
estimateBase64SizeIgnoringPadding(base64Data) ==
    LET len == Len(base64Data)
    IN  IF len = 0 THEN 0 ELSE (len * 3) \div 4

estimateBase64Size(base64Data) ==
    LET len == Len(base64Data)
        padding == IF EndsWith(base64Data, <<"=", "=">>) THEN 2
                   ELSE IF EndsWith(base64Data, <<"=">>) THEN 1 ELSE 0
    IN  IF len = 0 THEN 0 ELSE Max(0, ((len * 3) \div 4) - padding)

\* the tokens atob accepts as base64 digits
Base64Digits == {"A", "B"}

\* atob (forgiving-base64 decode) followed by the copy into a Uint8Array; the
\* value returned is the number of bytes, the bytes themselves are left out
decodeBase64ToUint8Array(base64Data) ==
    LET len == Len(base64Data)
        unpadded ==
            IF len % 4 = 0 /\ EndsWith(base64Data, <<"=", "=">>)
            THEN SubSeq(base64Data, 1, len - 2)
            ELSE IF len % 4 = 0 /\ EndsWith(base64Data, <<"=">>)
            THEN SubSeq(base64Data, 1, len - 1)
            ELSE base64Data
    IN  IF Len(unpadded) % 4 = 1
           \/ \E i \in 1..Len(unpadded) : unpadded[i] \notin Base64Digits
        THEN Throw(createApiError("INVALID_REQUEST", "invalid base64", 400))
        ELSE Ok((Len(unpadded) * 6) \div 8)

----------------------------------------------------------------------------
(* Responses *)

\* jsonResponse(data, status): the headers are the same for every response
jsonResponse(data, status) == [status |-> status, body |-> data]

FailureBody(code, message) == [success |-> FALSE, code |-> code, error |-> message]

\* RetryAfterHint with the hint dropped
RetryAfterHintDropped(error) == 0

\* error.retryAfterSeconds || null (lines 188 and 205); 0 stands for null
RetryAfterHint(error) == error.retryAfterSeconds

\* toErrorResponse with the error's own status passed through on 401/403
toErrorResponseRawStatus(error) ==
    IF error.code = "INVALID_REQUEST"
    THEN jsonResponse(FailureBody("INVALID_REQUEST", error.message),
                      IF error.status # 0 THEN error.status ELSE 400)
    ELSE IF error.status = 429
    THEN jsonResponse([success |-> FALSE, code |-> "RATE_LIMIT",
                       error |-> error.message,
                       retryAfterSeconds |-> RetryAfterHint(error)], 429)
    ELSE IF error.status = 401 \/ error.status = 403
    THEN jsonResponse(FailureBody("AUTH_ERROR", error.message), error.status)
    ELSE IF error.stage = "commit"
    THEN jsonResponse([success |-> FALSE, code |-> "PARTIAL_UPLOAD_NOT_COMMITTED",
                       error |-> error.message,
                       retryAfterSeconds |-> RetryAfterHint(error),
                       uploadedFiles |-> error.uploadedFiles], 502)
    ELSE jsonResponse(FailureBody("INTERNAL_ERROR", error.message), 500)

toErrorResponse(error) ==
    IF error.code = "INVALID_REQUEST"
    THEN jsonResponse(FailureBody("INVALID_REQUEST", error.message),
                      IF error.status # 0 THEN error.status ELSE 400)
    ELSE IF error.status = 429
    THEN jsonResponse([success |-> FALSE, code |-> "RATE_LIMIT",
                       error |-> error.message,
                       retryAfterSeconds |-> RetryAfterHint(error)], 429)
    ELSE IF error.status = 401 \/ error.status = 403
    THEN jsonResponse(FailureBody("AUTH_ERROR", error.message), 401)
    ELSE IF error.stage = "commit"
    THEN jsonResponse([success |-> FALSE, code |-> "PARTIAL_UPLOAD_NOT_COMMITTED",
                       error |-> error.message,
                       retryAfterSeconds |-> RetryAfterHint(error),
                       uploadedFiles |-> error.uploadedFiles], 502)
    ELSE jsonResponse(FailureBody("INTERNAL_ERROR", error.message), 500)

Code(response) ==
    IF "code" \in DOMAIN response.body THEN response.body.code ELSE ""

IsSuccess(response) ==
    /\ response.status = 200
    /\ "success" \in DOMAIN response.body /\ response.body.success

IsReplay(response) == IsSuccess(response) /\ "idempotent" \in DOMAIN response.body

NoResponse == jsonResponse([success |-> FALSE, code |-> "", error |-> "pending"], 0)

----------------------------------------------------------------------------
(* The file loop of onRequestPost (lines 348-425) *)

IsEmptyContent(estimatedSize) == estimatedSize <= 0

ExceedsSingle(estimatedSize) == estimatedSize > maxSingleFileSize

\* ExceedsTotal with the comparison off by one
ExceedsTotalOffByOne(totalEstimatedBytes) == totalEstimatedBytes >= maxTotalSize

ExceedsTotal(totalEstimatedBytes) == totalEstimatedBytes > maxTotalSize

FullId(normalizedFolder, fileName) ==
    IF normalizedFolder # <<>> THEN normalizedFolder \o <<"/">> \o fileName
    ELSE fileName

\* IsDuplicate with the check left out
IsDuplicateNever(fullIdSet, fullId) == FALSE

IsDuplicate(fullIdSet, fullId) == fullId \in fullIdSet

\* one iteration: the prepared file and the new running total, or the error thrown
PrepareOne(fileInput, normalizedFolder, totalEstimatedBytes, fullIdSet) ==
    LET fileName == normalizeFileName(fileInput.name)
        base64Data == normalizeContentBase64(fileInput.contentBase64)
        estimatedSize == estimateBase64Size(base64Data.value)
        total == totalEstimatedBytes + estimatedSize
        fullId == FullId(normalizedFolder, fileName.value)
        bytes == decodeBase64ToUint8Array(base64Data.value)
    IN  IF ~fileName.ok THEN fileName
        ELSE IF ~base64Data.ok THEN base64Data
        ELSE IF IsEmptyContent(estimatedSize)
        THEN Throw(createApiError("INVALID_REQUEST", "empty content", 400))
        ELSE IF ExceedsSingle(estimatedSize)
        THEN Throw(createApiError("INVALID_REQUEST", "exceeds single size", 400))
        ELSE IF ExceedsTotal(total)
        THEN Throw(createApiError("INVALID_REQUEST", "exceeds total size", 400))
        ELSE IF StartsWith(fullId, ReservedPrefix)
        THEN Throw(createApiError("INVALID_REQUEST", "reserved path", 400))
        ELSE IF IsDuplicate(fullIdSet, fullId)
        THEN Throw(createApiError("INVALID_REQUEST", "duplicate path", 400))
        ELSE IF ~bytes.ok THEN bytes
        ELSE Ok([file |-> [name |-> fileName.value, fullId |-> fullId,
                           filePath |-> fullId, size |-> bytes.value],
                 total |-> total])

\* the loop: the prepared files, or the error thrown together with the files
\* prepared before it
RECURSIVE PrepareLoop(_, _, _, _, _, _)
PrepareLoop(files, i, normalizedFolder, totalEstimatedBytes, fullIdSet, preparedFiles) ==
    IF i > Len(files) THEN Ok(preparedFiles)
    ELSE LET one == PrepareOne(files[i], normalizedFolder, totalEstimatedBytes,
                               fullIdSet)
         IN  IF ~one.ok
             THEN [ok |-> FALSE, value |-> preparedFiles, error |-> one.error]
             ELSE PrepareLoop(files, i + 1, normalizedFolder, one.value.total,
                              fullIdSet \cup {one.value.file.fullId},
                              Append(preparedFiles, one.value.file))

PrepareFiles(files, normalizedFolder) ==
    PrepareLoop(files, 1, normalizedFolder, 0, {}, <<>>)

----------------------------------------------------------------------------
(* The key-value store *)

Absent == [kind |-> "absent"]

\* the value '' that index records are stored with
EmptyValue == [kind |-> "empty"]

\* a stored text that JSON.parse rejects
Garbage == [kind |-> "garbage"]

\* a stored text that parses to a value that is not an object, such as 42
Scalar == [kind |-> "scalar"]

\* a stored text that parses to an object that is not a response, such as {}
ForeignObject == [kind |-> "object"]

\* JSON.stringify(payload): a text that parses back to the payload
JsonStringify(payload) == [kind |-> "json", payload |-> payload]

\* DbGet for a store that never returns what was written
DbGetMissing(store, key) == Absent

\* db.get(key): null when the key is absent
DbGet(store, key) == IF key \in DOMAIN store THEN store[key].value ELSE Absent

\* DbPut with the write lost
DbPutLost(store, key, value, metadata) == store

\* db.put(key, value, { metadata })
DbPut(store, key, value, metadata) ==
    (key :> [value |-> value, metadata |-> metadata]) @@ store

\* DbPutFailed for a store that applies the write before the call throws
DbPutFailedAfterWriting(store, key, value, metadata) ==
    DbPut(store, key, value, metadata)

\* db.put(key, value, { metadata }) throws: nothing is stored
DbPutFailed(store, key, value, metadata) == store

\* db.delete(key)
DbDelete(store, key) == [k \in (DOMAIN store) \ {key} |-> store[k]]

\* if (existing): null and '' are falsy
Truthy(existing) == existing.kind \notin {"absent", "empty"}

\* ParsePayload with the object test inverted: every stored value is dropped
ParsePayloadNever(existing) == <<>>

\* lines 298-305: the parsed payload when it is an object, else nothing
ParsePayload(existing) ==
    IF existing.kind = "json" THEN <<existing.payload>>
    ELSE IF existing.kind = "object" THEN <<[foreign |-> TRUE]>>
    ELSE <<>>

\* IdempotencyKey without the reserved prefix
IdempotencyKeyUnprefixed(requestId) ==
    IF requestId.t = "string" /\ requestId.s # <<>>
    THEN <<"hf_batch_request@">> \o requestId.s
    ELSE <<>>

\* line 294
IdempotencyKey(requestId) ==
    IF requestId.t = "string" /\ requestId.s # <<>>
    THEN <<"manage@", "hf_batch_request@">> \o requestId.s
    ELSE <<>>

----------------------------------------------------------------------------
(* Channels *)

Channel(name, token, repo) ==
    [name |-> name, token |-> token, repo |-> repo, isPrivate |-> FALSE]

\* selectHuggingFaceChannel with the requested name ignored
selectHuggingFaceChannelIgnoringName(settings, channelName) ==
    IF Len(settings.channels) = 0 THEN {<<>>}
    ELSE IF settings.loadBalance
    THEN {<<settings.channels[i]>> : i \in 1..Len(settings.channels)}
    ELSE {<<settings.channels[1]>>}

\* the channels selectHuggingFaceChannel may return: <<>> is null, and load
\* balancing draws any member of the list
selectHuggingFaceChannel(settings, channelName) ==
    LET channels == settings.channels
        named == {i \in 1..Len(channels) : channels[i].name = channelName.s}
    IN  IF Len(channels) = 0 THEN {<<>>}
        ELSE IF channelName.t = "string" /\ channelName.s # <<>>
        THEN IF named = {} THEN {<<>>}
             ELSE {<<channels[CHOOSE i \in named : \A j \in named : i <= j]>>}
        ELSE IF settings.loadBalance
        THEN {<<channels[i]>> : i \in 1..Len(channels)}
        ELSE {<<channels[1]>>}

----------------------------------------------------------------------------
(* The backend client (functions/utils/huggingfaceAPI.js) *)

\* the staged-file list an error tagged with the commit stage carries
StagedFiles(files) ==
    [i \in 1..Len(files) |-> [name |-> files[i].name, filePath |-> files[i].filePath]]

\* the errors uploadFilesInSingleCommit may throw: an HTTP status (0: none, as
\* for a timeout), and the commit-stage marker with the staged files when the
\* transaction submission failed after staging
BackendError(status, stage, retryAfterSeconds, files) ==
    [NoError EXCEPT !.message = "backend", !.status = status, !.stage = stage,
                    !.uploadedFiles = IF stage = "commit" THEN StagedFiles(files)
                                      ELSE <<>>,
                    !.retryAfterSeconds = retryAfterSeconds]

BackendErrors(files) ==
    { BackendError(t[1], t[2], t[3], files) :
        t \in { u \in {0, 429, 401, 403, 500} \X {"", "commit"} \X {0, 30} :
                  u[3] = 0 \/ u[1] = 429 } }

\* extractCommitId(uploadResult.commitResult): the transaction's number stands
\* for its oid, 0 for null
extractCommitId(commitResult) == commitResult.oid

----------------------------------------------------------------------------
(* Requests *)

Req == {1, 2}

\* base64 text of n bytes without padding
Content(n) == [i \in 1..((n * 4 + 2) \div 3) |-> "A"]

File(name, contentBase64) ==
    [name |-> Str(name), contentBase64 |-> Str(contentBase64)]

NameTokens == <<"a", "b", "c", "d", "e">>

\* k files named a, b, ... of one byte each
OneByteFiles(k) == [i \in 1..k |-> File(<<NameTokens[i]>>, Content(1))]

Batches ==
    { OneByteFiles(1),
      \* sizes summing to exactly maxTotalSize, and to one byte more
      <<File(<<"a">>, Content(1)), File(<<"b">>, Content(maxTotalSize - 1))>>,
      <<File(<<"a">>, Content(2)), File(<<"b">>, Content(maxTotalSize - 1))>>,
      \* one file of maxSingleFileSize + 1 bytes
      <<File(<<"a">>, Content(maxSingleFileSize + 1))>>,
      \* two entries resolving to the same path
      <<File(<<"a">>, Content(1)), File(<<" ", "a">>, Content(1))>>,
      \* illegal names
      <<File(<<".", ".", "/", "e">>, Content(1))>>,
      <<File(<<"a">>, Content(1)), File(<<"manage@", "x">>, Content(1))>>,
      \* empty and undecodable content
      <<File(<<"a">>, <<"A">>)>>,
      <<File(<<"a">>, <<" ">>)>>,
      <<File(<<"a">>, <<"data:", "x", ",">>)>>,
      <<File(<<"a">>, <<"A", "A", "!">>)>>,
      <<File(<<"a">>, <<"data:", "x", ",", "A", "A", "=", "=">>)>>,
      \* too many entries, and none
      OneByteFiles(maxFiles + 1),
      <<>> }

\* the batch sent with a folder: a name to be trimmed, then a plain one
FolderBatch ==
    <<File(<<" ", "a">>, Content(1)), File(<<"b">>, Content(1))>>

\* the batches also sent with a requestId: a valid one and one with an illegal
\* name
IdentifiedBatches ==
    { OneByteFiles(1), <<File(<<".", ".", "/", "e">>, Content(1))>> }

Request(files, uploadFolder, requestId, channelName) ==
    [authorized |-> TRUE, json |-> TRUE, filesIsArray |-> TRUE, files |-> files,
     uploadFolder |-> uploadFolder, requestId |-> requestId,
     channelName |-> channelName]

R1 == <<"r1">>

RequestIds == {R1}

Inputs ==
    { Request(f, Str(<<>>), JsNull, JsNull) : f \in Batches }
    \cup { Request(f, Str(<<>>), Str(R1), JsNull) : f \in IdentifiedBatches }
    \cup { Request(FolderBatch, Str(<<"/", "d", "/">>), id, JsNull) :
             id \in {JsNull, Str(R1)} }
    \cup { Request(OneByteFiles(1), Str(<<".", ".">>), Str(R1), JsNull),
           Request(OneByteFiles(1), Str(<<>>), Str(<<" ">>), JsNull),
           Request(OneByteFiles(1), Str(<<>>), [t |-> "number", s |-> <<>>], JsNull),
           Request(OneByteFiles(1), Str(<<>>), JsNull, Str(<<"c1">>)),
           Request(OneByteFiles(1), Str(<<>>), JsNull, Str(<<"c2">>)),
           Request(OneByteFiles(1), Str(<<>>), JsNull, Str(<<"zz">>)),
           Request(OneByteFiles(1), Str(<<>>), Str(R1), Str(<<"zz">>)),
           [Request(OneByteFiles(1), Str(<<>>), Str(R1), JsNull)
               EXCEPT !.authorized = FALSE],
           [Request(OneByteFiles(1), Str(<<>>), Str(R1), JsNull)
               EXCEPT !.json = FALSE],
           [Request(<<>>, Str(<<>>), Str(R1), JsNull)
               EXCEPT !.filesIsArray = FALSE] }

\* the configurations the provider may hold
Configs ==
    { [channels |-> <<>>, loadBalance |-> FALSE],
      [channels |-> <<Channel(<<"c1">>, "tok", "repo1"),
                      Channel(<<"c2">>, "", "repo2")>>, loadBalance |-> FALSE],
      [channels |-> <<Channel(<<"c2">>, "", "repo2"),
                      Channel(<<"c1">>, "tok", "repo1")>>, loadBalance |-> TRUE] }

\* the store when the first request arrives: empty, or holding an entry under
\* R1's ledger key that does not parse
InitialStores ==
    { <<>>, DbPut(<<>>, IdempotencyKey(Str(R1)), Garbage, <<>>) }

----------------------------------------------------------------------------
(* onRequestPost *)

\* a call to a collaborator and how it ended: "ok", "failed" (it threw), or
\* "staged" (the backend threw with the commit-stage marker)
Call(op, arg) == [op |-> op, arg |-> arg, result |-> "ok"]

Thrown(calls, result) ==
    [k \in 1..Len(calls) |->
        IF k = Len(calls) THEN [calls[k] EXCEPT !.result = result] ELSE calls[k]]

EmptyLocal ==
    [normalizedFolder |-> <<>>, idempotencyKey |-> <<>>, hfChannel |-> <<>>,
     preparedFiles |-> <<>>, commitId |-> 0, moderateEnabled |-> FALSE,
     i |-> 0, responseFiles |-> <<>>, caught |-> <<>>, existing |-> Absent]

NoHistory == [priorSuccess |-> <<>>, priorCommit |-> FALSE]

\* an error thrown by a collaborator that carries no code, status or stage
PlainError(message) == [NoError EXCEPT !.message = message]

\* lines 278-286
RequestIdRejected(requestId) ==
    /\ requestId.t # "null"
    /\ \/ requestId.t # "string"
       \/ Trim(requestId.s) = <<>>
       \/ Len(requestId.s) > MaxRequestIdLength

\* lines 233-291: the response returned before the ledger lookup, or the
\* normalized folder to go on with
Admission(in) ==
    IF ~in.authorized
    THEN Throw(jsonResponse(FailureBody("AUTH_ERROR", "Unauthorized"), 401))
    ELSE IF ~in.json
    THEN Throw(jsonResponse(FailureBody("INVALID_REQUEST", "body"), 400))
    ELSE IF ~in.filesIsArray \/ Len(in.files) = 0
    THEN Throw(jsonResponse(FailureBody("INVALID_REQUEST", "files empty"), 400))
    ELSE IF Len(in.files) > maxFiles
    THEN Throw(jsonResponse(FailureBody("INVALID_REQUEST", "too many files"), 400))
    ELSE IF RequestIdRejected(in.requestId)
    THEN Throw(jsonResponse(FailureBody("INVALID_REQUEST", "requestId"), 400))
    ELSE LET normalizedFolder == normalizeUploadFolder(in.uploadFolder)
         IN  IF normalizedFolder.ok THEN normalizedFolder
             ELSE Throw(toErrorResponse(normalizedFolder.error))

\* /file/<encodeFileIdForUrl(fullId)>
encodeURIComponent(token) ==
    IF token = " " THEN "%20"
    ELSE IF token = "manage@" THEN "manage%40"
    ELSE token

encodeFileIdForUrl(fileId) == [k \in 1..Len(fileId) |-> encodeURIComponent(fileId[k])]

\* ResponseFile with the folder left out of fullId
ResponseFileWithoutFolder(file) ==
    [name |-> file.name, src |-> <<"/file/">> \o encodeFileIdForUrl(file.fullId),
     fullId |-> file.name]

ResponseFile(file) ==
    [name |-> file.name, src |-> <<"/file/">> \o encodeFileIdForUrl(file.fullId),
     fullId |-> file.fullId]

\* lines 394-455: the fields of the index record the claims read
Metadata(file, hfChannel, label) ==
    [FileName |-> file.name, FileSizeBytes |-> file.size, Label |-> label,
     ChannelName |-> IF hfChannel.name # <<>> THEN hfChannel.name
                     ELSE <<"HuggingFace_env">>,
     HfRepo |-> hfChannel.repo]

\* lines 483-490
Payload(in, loc) ==
    [success |-> TRUE,
     requestId |-> IF in.requestId.t = "string" THEN in.requestId.s ELSE <<>>,
     commitId |-> loc.commitId,
     channelName |-> loc.hfChannel[1].name,
     repo |-> loc.hfChannel[1].repo,
     files |-> loc.responseFiles]

RequestIdText(in) ==
    IF IdempotencyKey(in.requestId) # <<>> THEN in.requestId.s ELSE <<>>

\* the handler returns `response`
Finish(r, response) ==
    /\ pc' = [pc EXCEPT ![r] = "done"]
    /\ resp' = [resp EXCEPT ![r] = response]
    /\ LET id == RequestIdText(input[r])
       IN  firstResp' =
             IF id \in RequestIds /\ IsSuccess(response) /\ ~IsReplay(response)
                /\ firstResp[id] = <<>>
             THEN [firstResp EXCEPT ![id] = <<response.body>>]
             ELSE firstResp

\* the catch of lines 497-500 takes `error`
Catch(r, error) ==
    /\ Finish(r, toErrorResponse(error))
    /\ local' = [local EXCEPT ![r].caught = <<error>>]

Logged(r, calls) == log' = [log EXCEPT ![r] = log[r] \o calls]

\* a request arrives: lines 224-294
Start(r, in) ==
    /\ pc[r] \in {"idle", "done"}
    /\ commits < MaxCommits
    /\ LET adm == Admission(in)
           key == IdempotencyKey(in.requestId)
           id == IF key # <<>> THEN in.requestId.s ELSE <<>>
       IN  /\ input' = [input EXCEPT ![r] = in]
           /\ log' = [log EXCEPT ![r] = <<Call("userAuthCheck", <<>>)>>]
           /\ hist' = [hist EXCEPT ![r] =
                         IF id \in RequestIds
                         THEN [priorSuccess |-> firstResp[id],
                               priorCommit |-> id \in committed]
                         ELSE NoHistory]
           /\ IF adm.ok
              THEN /\ local' = [local EXCEPT ![r] =
                                  [EmptyLocal EXCEPT !.normalizedFolder = adm.value,
                                                     !.idempotencyKey = key]]
                   /\ pc' = [pc EXCEPT ![r] = IF key # <<>> THEN "lookup"
                                               ELSE "config"]
                   /\ resp' = [resp EXCEPT ![r] = NoResponse]
              ELSE /\ local' = [local EXCEPT ![r] = EmptyLocal]
                   /\ pc' = [pc EXCEPT ![r] = "done"]
                   /\ resp' = [resp EXCEPT ![r] = adm.error]
    /\ UNCHANGED <<db, commits, hfSettings, firstResp, committed, norm, mime>>

\* db.get(idempotencyKey) returns: lines 296-311
LedgerLookup(r) ==
    /\ pc[r] = "lookup"
    /\ LET key == local[r].idempotencyKey
           existing == DbGet(db, key)
           payload == ParsePayload(existing)
       IN  /\ Logged(r, <<Call("db.get", key)>>)
           /\ local' = [local EXCEPT ![r].existing = existing]
           /\ IF ~Truthy(existing)
              THEN /\ pc' = [pc EXCEPT ![r] = "config"]
                   /\ UNCHANGED <<resp, firstResp>>
              ELSE IF payload = <<>>
              THEN /\ pc' = [pc EXCEPT ![r] = "delete"]
                   /\ UNCHANGED <<resp, firstResp>>
              ELSE Finish(r, jsonResponse(("idempotent" :> TRUE) @@ payload[1], 200))
    /\ UNCHANGED <<db, commits, hfSettings, input, hist, committed, norm, mime>>

\* db.delete(idempotencyKey) returns: line 306
LedgerDelete(r) ==
    /\ pc[r] = "delete"
    /\ db' = DbDelete(db, local[r].idempotencyKey)
    /\ Logged(r, <<Call("db.delete", local[r].idempotencyKey)>>)
    /\ pc' = [pc EXCEPT ![r] = "config"]
    /\ UNCHANGED <<commits, hfSettings, input, local, resp, hist, firstResp,
                   committed, norm, mime>>

ChannelNotFound == jsonResponse(FailureBody("CHANNEL_NOT_FOUND", "channel"), 400)

\* fetchUploadConfig returns: lines 314-345
SelectChannel(r) ==
    /\ pc[r] = "config"
    /\ Logged(r, <<Call("fetchUploadConfig", <<>>)>>)
    /\ \E hfChannel \in selectHuggingFaceChannel(hfSettings, input[r].channelName) :
          IF Len(hfSettings.channels) = 0 \/ hfChannel = <<>>
             \/ hfChannel[1].token = "" \/ hfChannel[1].repo = ""
          THEN /\ Finish(r, ChannelNotFound)
               /\ UNCHANGED local
          ELSE /\ local' = [local EXCEPT ![r].hfChannel = hfChannel]
               /\ pc' = [pc EXCEPT ![r] = "address"]
               /\ UNCHANGED <<resp, firstResp>>
    /\ UNCHANGED <<db, commits, hfSettings, input, hist, committed, norm, mime>>

\* AddressAndLoopCalls with each file uploaded as soon as it is prepared
AddressAndLoopCallsUploading(preparedFiles) ==
    <<Call("getIPAddress", <<>>)>>
    \o [k \in 1..Len(preparedFiles) |-> Call("uploadFile", preparedFiles[k].filePath)]

\* the collaborator calls of lines 344-425: the address lookup; the file loop
\* that follows it calls none, whatever it has prepared
AddressAndLoopCalls(preparedFiles) == <<Call("getIPAddress", <<>>)>>

\* getIPAddress returns, then the file loop runs: lines 345-431
PrepareBatch(r) ==
    /\ pc[r] = "address"
    /\ LET prepared == PrepareFiles(input[r].files, local[r].normalizedFolder)
       IN  /\ Logged(r, AddressAndLoopCalls(prepared.value))
           /\ IF prepared.ok
              THEN /\ local' = [local EXCEPT ![r].preparedFiles = prepared.value]
                   /\ pc' = [pc EXCEPT ![r] = "commit"]
                   /\ UNCHANGED <<resp, firstResp>>
              ELSE Catch(r, prepared.error)
    /\ UNCHANGED <<db, commits, hfSettings, input, hist, committed, norm, mime>>

\* CommitCalls as the per-file upload would make them: one transaction per file
CommitCallsPerFile(preparedFiles) ==
    [k \in 1..Len(preparedFiles) |->
        Call("uploadFilesInSingleCommit", <<preparedFiles[k].filePath>>)]

\* lines 432-441: the backend calls made for the prepared files
CommitCalls(preparedFiles) ==
    <<Call("uploadFilesInSingleCommit",
           [k \in 1..Len(preparedFiles) |-> preparedFiles[k].filePath])>>

\* uploadFilesInSingleCommit returns or throws: lines 432-441
Commit(r) ==
    /\ pc[r] = "commit"
    /\ LET calls == CommitCalls(local[r].preparedFiles)
           id == RequestIdText(input[r])
       IN  /\ \/ /\ Logged(r, calls)
                 /\ commits' = commits + Len(calls)
                 /\ local' = [local EXCEPT ![r].commitId =
                                extractCommitId([oid |-> commits'])]
                 /\ committed' = IF id \in RequestIds THEN committed \cup {id}
                                 ELSE committed
                 /\ pc' = [pc EXCEPT ![r] = "security"]
                 /\ UNCHANGED <<resp, firstResp>>
              \/ /\ \E error \in BackendErrors(local[r].preparedFiles) :
                       /\ Logged(r, Thrown(calls, IF error.stage = "commit"
                                                  THEN "staged" ELSE "failed"))
                       /\ Catch(r, error)
                 /\ UNCHANGED <<commits, committed>>
    /\ UNCHANGED <<db, hfSettings, input, hist, norm, mime>>

\* fetchSecurityConfig returns or throws: lines 443-446
FetchSecurityConfig(r) ==
    /\ pc[r] = "security"
    /\ \/ /\ Logged(r, <<Call("fetchSecurityConfig", <<>>)>>)
          /\ \E moderateEnabled \in BOOLEAN :
                local' = [local EXCEPT ![r].moderateEnabled = moderateEnabled,
                                       ![r].i = 1]
          /\ pc' = [pc EXCEPT ![r] = "index"]
          /\ UNCHANGED <<resp, firstResp>>
       \/ /\ Logged(r, Thrown(<<Call("fetchSecurityConfig", <<>>)>>, "failed"))
          /\ Catch(r, PlainError("security config"))
    /\ UNCHANGED <<db, commits, hfSettings, input, hist, committed, norm, mime>>

\* lines 474-496 for file i, up to the next await or the return
Advance(r) ==
    LET loc == local[r]
        file == loc.preparedFiles[loc.i]
        pushed == [loc EXCEPT !.responseFiles = Append(@, ResponseFile(file))]
    IN  IF loc.i < Len(loc.preparedFiles)
        THEN /\ local' = [local EXCEPT ![r] = [pushed EXCEPT !.i = loc.i + 1]]
             /\ pc' = [pc EXCEPT ![r] = "index"]
             /\ UNCHANGED <<resp, firstResp>>
        ELSE /\ local' = [local EXCEPT ![r] = pushed]
             /\ IF loc.idempotencyKey # <<>>
                THEN /\ pc' = [pc EXCEPT ![r] = "store"]
                     /\ UNCHANGED <<resp, firstResp>>
                ELSE Finish(r, jsonResponse(Payload(input[r], pushed), 200))

\* the first db.put of file i returns or throws: line 457
IndexWrite(r) ==
    /\ pc[r] = "index"
    /\ LET loc == local[r]
           file == loc.preparedFiles[loc.i]
       IN  /\ \/ /\ Logged(r, <<Call("db.put", file.fullId)>>)
                 /\ db' = DbPut(db, file.fullId, EmptyValue,
                                <<Metadata(file, loc.hfChannel[1], "None")>>)
                 /\ IF loc.moderateEnabled
                    THEN /\ pc' = [pc EXCEPT ![r] = "moderate"]
                         /\ UNCHANGED <<local, resp, firstResp>>
                    ELSE Advance(r)
              \/ /\ Logged(r, Thrown(<<Call("db.put", file.fullId)>>, "failed"))
                 /\ Catch(r, PlainError("db.put"))
                 /\ db' = DbPutFailed(db, file.fullId, EmptyValue,
                                      <<Metadata(file, loc.hfChannel[1], "None")>>)
    /\ UNCHANGED <<commits, hfSettings, input, hist, committed, norm, mime>>

\* moderateContent returns or throws, then the second db.put: lines 459-472
Moderate(r) ==
    /\ pc[r] = "moderate"
    /\ LET loc == local[r]
           file == loc.preparedFiles[loc.i]
           calls == <<Call("moderateContent", file.fullId),
                      Call("db.put", file.fullId)>>
       IN  \/ /\ Logged(r, Thrown(<<calls[1]>>, "failed"))
              /\ UNCHANGED db
              /\ Advance(r)
           \/ /\ Logged(r, calls)
              /\ db' = DbPut(db, file.fullId, EmptyValue,
                             <<Metadata(file, loc.hfChannel[1], "adult")>>)
              /\ Advance(r)
           \/ /\ Logged(r, Thrown(calls, "failed"))
              /\ db' = DbPutFailed(db, file.fullId, EmptyValue,
                                   <<Metadata(file, loc.hfChannel[1], "adult")>>)
              /\ Advance(r)
    /\ UNCHANGED <<commits, hfSettings, input, hist, committed, norm, mime>>

\* db.put(idempotencyKey, JSON.stringify(payload)) returns or throws: 492-496
LedgerStore(r) ==
    /\ pc[r] = "store"
    /\ \/ /\ Logged(r, <<Call("db.put", local[r].idempotencyKey)>>)
          /\ db' = DbPut(db, local[r].idempotencyKey,
                         JsonStringify(Payload(input[r], local[r])), <<>>)
          /\ Finish(r, jsonResponse(Payload(input[r], local[r]), 200))
          /\ UNCHANGED local
       \/ /\ Logged(r, Thrown(<<Call("db.put", local[r].idempotencyKey)>>,
                                "failed"))
          /\ db' = DbPutFailed(db, local[r].idempotencyKey,
                               JsonStringify(Payload(input[r], local[r])), <<>>)
          /\ Catch(r, PlainError("ledger db.put"))
    /\ UNCHANGED <<commits, hfSettings, input, hist, committed, norm, mime>>

----------------------------------------------------------------------------
(* mimeType.js: texts are sequences of tokens; a token is a run of characters
   of the class [a-z0-9!#$&^_.+-] in either case, or one of the tokens of
   NonTokenChars *)

Utf8(type) == type \o <<";", " ", "charset=utf-8">>

EXTENSION_MIME_MAP ==
    ("avif" :> <<"image", "/", "avif">>) @@
    ("bmp" :> <<"image", "/", "bmp">>) @@
    ("css" :> Utf8(<<"text", "/", "css">>)) @@
    ("csv" :> Utf8(<<"text", "/", "csv">>)) @@
    ("gif" :> <<"image", "/", "gif">>) @@
    ("heic" :> <<"image", "/", "heic">>) @@
    ("heif" :> <<"image", "/", "heif">>) @@
    ("htm" :> Utf8(<<"text", "/", "html">>)) @@
    ("html" :> Utf8(<<"text", "/", "html">>)) @@
    ("ico" :> <<"image", "/", "x-icon">>) @@
    ("jpeg" :> <<"image", "/", "jpeg">>) @@
    ("jpg" :> <<"image", "/", "jpeg">>) @@
    ("js" :> Utf8(<<"application", "/", "javascript">>)) @@
    ("json" :> Utf8(<<"application", "/", "json">>)) @@
    ("md" :> Utf8(<<"text", "/", "markdown">>)) @@
    ("mp3" :> <<"audio", "/", "mpeg">>) @@
    ("mp4" :> <<"video", "/", "mp4">>) @@
    ("mpeg" :> <<"video", "/", "mpeg">>) @@
    ("mpg" :> <<"video", "/", "mpeg">>) @@
    ("m4a" :> <<"audio", "/", "mp4">>) @@
    ("mov" :> <<"video", "/", "quicktime">>) @@
    ("pdf" :> <<"application", "/", "pdf">>) @@
    ("png" :> <<"image", "/", "png">>) @@
    ("svg" :> <<"image", "/", "svg+xml">>) @@
    ("tif" :> <<"image", "/", "tiff">>) @@
    ("tiff" :> <<"image", "/", "tiff">>) @@
    ("txt" :> Utf8(<<"text", "/", "plain">>)) @@
    ("wav" :> <<"audio", "/", "wav">>) @@
    ("webm" :> <<"video", "/", "webm">>) @@
    ("webp" :> <<"image", "/", "webp">>) @@
    ("xml" :> Utf8(<<"application", "/", "xml">>)) @@
    ("zip" :> <<"application", "/", "zip">>)

\* the tokens holding a character outside the class of MIME_PATTERN
NonTokenChars == {"/", ";", " ", ",", "?", "data:", "DATA:", "charset=utf-8"}

IsTokenRun(s, from, to) ==
    from <= to /\ \A k \in from..to : s[k] \notin NonTokenChars

\* MIME_PATTERN.test(s): a run, a slash, a run, then nothing or blanks, a
\* semicolon and at least one more character
MIME_PATTERN(s) ==
    \E i \in 1..Len(s) : \E j \in i..Len(s) :
        /\ s[i] = "/"
        /\ IsTokenRun(s, 1, i - 1)
        /\ IsTokenRun(s, i + 1, j)
        /\ \/ j = Len(s)
           \/ \E m \in (j + 1)..(Len(s) - 1) :
                 s[m] = ";" /\ \A k \in (j + 1)..(m - 1) : s[k] = " "

OCTET_STREAM_PREFIX == <<"application", "/", "octet-stream">>

\* the tokens written in upper case, with their lower-case forms
LowerCaseOf ==
    ("APPLICATION" :> "application") @@ ("OCTET-STREAM" :> "octet-stream")
    @@ ("PNG" :> "png") @@ ("DATA:" :> "data:")

\* String.prototype.toLowerCase
ToLowerCase(s) ==
    [k \in 1..Len(s) |->
        IF s[k] \in DOMAIN LowerCaseOf THEN LowerCaseOf[s[k]] ELSE s[k]]

toBaseMimeType(mimeType) ==
    IF mimeType.t # "string" THEN JsNull
    ELSE LET trimmed == Trim(mimeType.s)
             baseType == Split(trimmed, ";")[1]
         IN  IF trimmed = <<>> THEN JsNull
             ELSE IF Trim(baseType) = <<>> THEN JsNull
             ELSE Str(ToLowerCase(Trim(baseType)))

\* normalizeMimeType returning its argument as it was given
normalizeMimeTypeUntrimmed(mimeType) ==
    IF mimeType.t # "string" THEN JsNull
    ELSE LET trimmed == Trim(mimeType.s)
         IN  IF trimmed = <<>> \/ ~MIME_PATTERN(trimmed) THEN JsNull
             ELSE Str(mimeType.s)

normalizeMimeType(mimeType) ==
    IF mimeType.t # "string" THEN JsNull
    ELSE LET trimmed == Trim(mimeType.s)
         IN  IF trimmed = <<>> \/ ~MIME_PATTERN(trimmed) THEN JsNull
             ELSE Str(trimmed)

isOctetStreamMimeType(mimeType) ==
    toBaseMimeType(mimeType) = Str(OCTET_STREAM_PREFIX)

\* String.prototype.lastIndexOf for a one-token text, 0 when it is absent
LastIndexOf(s, c) ==
    IF Includes(s, c)
    THEN CHOOSE k \in 1..Len(s) : s[k] = c /\ \A j \in (k + 1)..Len(s) : s[j] # c
    ELSE 0

\* EXTENSION_MIME_MAP[extension] || null: the table is an object literal, so
\* the key `constructor` yields the function it inherits
ExtensionLookup(extension) ==
    IF Len(extension) = 1 /\ extension[1] \in DOMAIN EXTENSION_MIME_MAP
    THEN Str(EXTENSION_MIME_MAP[extension[1]])
    ELSE IF extension = <<"constructor">> THEN JsFunction
    ELSE JsNull

inferMimeTypeFromFileName(fileName) ==
    IF fileName.t # "string" \/ Trim(fileName.s) = <<>> THEN JsNull
    ELSE LET normalizedFileName == Split(Split(fileName.s, "?")[1], "#")[1]
             parts == Split(normalizedFileName, "/")
             baseName == parts[Len(parts)]
             dotIndex == LastIndexOf(baseName, ".")
         IN  IF baseName = <<>> THEN JsNull
             ELSE IF dotIndex <= 1 \/ dotIndex = Len(baseName) THEN JsNull
             ELSE ExtensionLookup(ToLowerCase(
                      SubSeq(baseName, dotIndex + 1, Len(baseName))))

extractMimeTypeFromDataUrl(value) ==
    IF value.t # "string" THEN JsNull
    ELSE LET trimmed == Trim(value.s)
             commaIndex == IndexOf(trimmed, ",")
         IN  IF ~StartsWith(trimmed, <<"data:">>) THEN JsNull
             ELSE IF commaIndex <= 2 THEN JsNull
             ELSE normalizeMimeType(Str(Trim(
                      Split(SubSeq(trimmed, 2, commaIndex - 1), ";")[1])))

\* the options after destructuring: a default applies to a missing or
\* undefined property only
Options(dataUrlValue, defaultMimeType) ==
    [dataUrlValue |-> dataUrlValue, defaultMimeType |-> defaultMimeType]

resolveMimeType(mimeType, fileName, options) ==
    LET dataUrlValue == IF options.dataUrlValue = JsUndefined THEN JsNull
                        ELSE options.dataUrlValue
        defaultMimeType == IF options.defaultMimeType = JsUndefined
                           THEN Str(OCTET_STREAM_PREFIX)
                           ELSE options.defaultMimeType
        normalizedInput == normalizeMimeType(mimeType)
        dataUrlMimeType == extractMimeTypeFromDataUrl(dataUrlValue)
        inferredMimeType == inferMimeTypeFromFileName(fileName)
    IN  IF normalizedInput # JsNull /\ ~isOctetStreamMimeType(normalizedInput)
        THEN normalizedInput
        ELSE IF dataUrlMimeType # JsNull THEN dataUrlMimeType
        ELSE IF inferredMimeType # JsNull THEN inferredMimeType
        ELSE IF normalizedInput # JsNull THEN normalizedInput
        ELSE defaultMimeType

----------------------------------------------------------------------------
(* Specifications *)

NormIdle == [stage |-> "off", input |-> <<>>, once |-> Ok(<<>>), twice |-> Ok(<<>>)]

MimeIdle ==
    [stage |-> "off", mimeType |-> JsNull, fileName |-> JsNull,
     options |-> Options(JsUndefined, JsUndefined), result |-> JsNull]

Init ==
    /\ db \in InitialStores
    /\ commits = 0
    /\ hfSettings \in IF db = <<>> THEN Configs
                       ELSE {c \in Configs : ~c.loadBalance /\ c.channels # <<>>}
    /\ pc = [r \in Req |-> "idle"]
    /\ input = [r \in Req |-> Request(<<>>, Str(<<>>), JsNull, JsNull)]
    /\ local = [r \in Req |-> EmptyLocal]
    /\ resp = [r \in Req |-> NoResponse]
    /\ log = [r \in Req |-> <<>>]
    /\ hist = [r \in Req |-> NoHistory]
    /\ firstResp = [id \in RequestIds |-> <<>>]
    /\ committed = {}
    /\ norm = NormIdle
    /\ mime = MimeIdle

Step(r) ==
    \/ LedgerLookup(r)
    \/ LedgerDelete(r)
    \/ SelectChannel(r)
    \/ PrepareBatch(r)
    \/ Commit(r)
    \/ FetchSecurityConfig(r)
    \/ IndexWrite(r)
    \/ Moderate(r)
    \/ LedgerStore(r)

\* requests are handled one after the other
Next ==
    \/ \E in \in Inputs : Start(1, in)
    \/ Step(1)

Spec == Init /\ [][Next]_vars

\* the requests of two handlers running at once: valid batches carrying R1
ConcurrentInputs ==
    { Request(OneByteFiles(1), Str(<<>>), Str(R1), JsNull) }

\* two handlers interleave at their awaits
NextConcurrent ==
    \E r \in Req :
        \/ \E in \in ConcurrentInputs : Start(r, in)
        \/ Step(r)

ConcurrentSpec == Init /\ [][NextConcurrent]_vars

\* the values under R1's ledger key that are not a stored response: the empty
\* text, a text that does not parse, one that parses to a scalar, and one that
\* parses to an object of another shape
CorruptStores ==
    { DbPut(<<>>, IdempotencyKey(Str(R1)), v, <<>>) :
        v \in {EmptyValue, Garbage, Scalar, ForeignObject} }

\* the first request meets a store whose entry for R1 is not a stored response
CorruptInit ==
    /\ db \in CorruptStores
    /\ commits = 0
    /\ hfSettings = [channels |-> <<Channel(<<"c1">>, "tok", "repo1")>>,
                     loadBalance |-> FALSE]
    /\ pc = [r \in Req |-> "idle"]
    /\ input = [r \in Req |-> Request(<<>>, Str(<<>>), JsNull, JsNull)]
    /\ local = [r \in Req |-> EmptyLocal]
    /\ resp = [r \in Req |-> NoResponse]
    /\ log = [r \in Req |-> <<>>]
    /\ hist = [r \in Req |-> NoHistory]
    /\ firstResp = [id \in RequestIds |-> <<>>]
    /\ committed = {}
    /\ norm = NormIdle
    /\ mime = MimeIdle

CorruptSpec == CorruptInit /\ [][Next]_vars

----------------------------------------------------------------------------
(* Folder normalization applied once and twice to every short folder text *)

FolderAlphabet == {"a", "/", " ", ".", "manage@"}

FolderTexts == UNION { [1..n -> FolderAlphabet] : n \in 0..MaxFolderLen }

NormInit ==
    /\ db = <<>>
    /\ commits = 0
    /\ hfSettings = [channels |-> <<>>, loadBalance |-> FALSE]
    /\ pc = [r \in Req |-> "idle"]
    /\ input = [r \in Req |-> Request(<<>>, Str(<<>>), JsNull, JsNull)]
    /\ local = [r \in Req |-> EmptyLocal]
    /\ resp = [r \in Req |-> NoResponse]
    /\ log = [r \in Req |-> <<>>]
    /\ hist = [r \in Req |-> NoHistory]
    /\ firstResp = [id \in RequestIds |-> <<>>]
    /\ committed = {}
    /\ \E s \in FolderTexts : norm = [NormIdle EXCEPT !.stage = "input", !.input = s]
    /\ mime = MimeIdle

NormalizeOnce ==
    /\ norm.stage = "input"
    /\ norm' = [norm EXCEPT !.stage = "once",
                            !.once = normalizeUploadFolder(Str(norm.input))]
    /\ UNCHANGED <<db, commits, hfSettings, pc, input, local, resp, log, hist,
                   firstResp, committed, mime>>

NormalizeTwice ==
    /\ norm.stage = "once"
    /\ norm.once.ok
    /\ norm' = [norm EXCEPT !.stage = "twice",
                            !.twice = normalizeUploadFolder(Str(norm.once.value))]
    /\ UNCHANGED <<db, commits, hfSettings, pc, input, local, resp, log, hist,
                   firstResp, committed, mime>>

NormNext == NormalizeOnce \/ NormalizeTwice

NormSpec == NormInit /\ [][NormNext]_vars

----------------------------------------------------------------------------
(* One request for every short payload text, alone or before a second file *)

\* a base64 digit, the padding character, and a character atob rejects
PayloadAlphabet == {"A", "=", "!"}

PayloadTexts == UNION { [1..n -> PayloadAlphabet] : n \in 0..MaxPayloadLen }

\* the second file of a batch: one, two and three bytes, the first two padded
SecondPayloads == {<<"A", "A", "=", "=">>, <<"A", "A", "A", "=">>,
                   <<"A", "A", "A", "A">>}

PayloadInputs ==
    { Request(<<File(<<"a">>, t)>>, Str(<<>>), JsNull, JsNull) :
        t \in PayloadTexts }
    \cup { Request(<<File(<<"a">>, t), File(<<"b">>, u)>>, Str(<<>>), JsNull,
                   JsNull) : t \in PayloadTexts, u \in SecondPayloads }

PayloadInit ==
    /\ db = <<>>
    /\ commits = 0
    /\ hfSettings = [channels |-> <<Channel(<<"c1">>, "tok", "repo1")>>,
                     loadBalance |-> FALSE]
    /\ pc = [r \in Req |-> "idle"]
    /\ \E in \in PayloadInputs : input = [r \in Req |-> in]
    /\ local = [r \in Req |-> EmptyLocal]
    /\ resp = [r \in Req |-> NoResponse]
    /\ log = [r \in Req |-> <<>>]
    /\ hist = [r \in Req |-> NoHistory]
    /\ firstResp = [id \in RequestIds |-> <<>>]
    /\ committed = {}
    /\ norm = NormIdle
    /\ mime = MimeIdle

\* the request arrives once; it carries no requestId, so the ledger is not
\* consulted and the handler goes from admission to the configuration
PayloadNext ==
    \/ pc[1] = "idle" /\ Start(1, input[1])
    \/ SelectChannel(1)
    \/ PrepareBatch(1)
    \/ Commit(1)
    \/ FetchSecurityConfig(1)
    \/ IndexWrite(1)
    \/ Moderate(1)

PayloadSpec == PayloadInit /\ [][PayloadNext]_vars

----------------------------------------------------------------------------
(* resolveMimeType applied to declared types, file names and options *)

MimeAlphabet == {"application", "/", "octet-stream", " ", ";"}

MimeTexts == UNION { [1..n -> MimeAlphabet] : n \in 0..MaxMimeLen }

\* the declared types: every short text, longer ones with blanks around them,
\* an upper-case form and a parameter, and values that are not strings
DeclaredTypes ==
    { Str(t) : t \in MimeTexts }
    \cup { Str(<<" ", "image", "/", "png", " ">>),
           Str(<<"APPLICATION", "/", "OCTET-STREAM", ";", " ", "charset=utf-8">>),
           Str(<<" ", "application", "/", "octet-stream">>),
           Str(<<"image", "/", "png", " ", ";", "charset=utf-8">>),
           JsNull, JsUndefined }

FileNames ==
    { JsUndefined,
      Str(<<"a", ".", "png">>),
      Str(<<"a", ".", "PNG">>),
      Str(<<".", "png">>),
      Str(<<"a", ".">>),
      Str(<<"a", ".", "xyz">>),
      Str(<<"d", ".", "png", "/", "a", ".", "css", "?", "b", ".", "zip">>),
      Str(<<"a", ".", "constructor">>) }

DataUrls ==
    { JsUndefined,
      Str(<<"data:", "image", "/", "gif", ";", "base64", ",", "AAAA">>),
      Str(<<" ", "data:", "application", "/", "octet-stream", ",", "AAAA">>),
      Str(<<"data:", ",", "AAAA">>),
      Str(<<"data:", "image", ";", "base64", ",", "AAAA">>),
      Str(<<"DATA:", "image", "/", "gif", ",", "AAAA">>) }

DefaultTypes == { JsUndefined, Str(<<"text", "/", "plain">>), JsNull }

MimeInit ==
    /\ db = <<>>
    /\ commits = 0
    /\ hfSettings = [channels |-> <<>>, loadBalance |-> FALSE]
    /\ pc = [r \in Req |-> "idle"]
    /\ input = [r \in Req |-> Request(<<>>, Str(<<>>), JsNull, JsNull)]
    /\ local = [r \in Req |-> EmptyLocal]
    /\ resp = [r \in Req |-> NoResponse]
    /\ log = [r \in Req |-> <<>>]
    /\ hist = [r \in Req |-> NoHistory]
    /\ firstResp = [id \in RequestIds |-> <<>>]
    /\ committed = {}
    /\ norm = NormIdle
    /\ \E mimeType \in DeclaredTypes : \E fileName \in FileNames :
       \E dataUrlValue \in DataUrls : \E defaultMimeType \in DefaultTypes :
          mime = [MimeIdle EXCEPT
                    !.stage = "called", !.mimeType = mimeType,
                    !.fileName = fileName,
                    !.options = Options(dataUrlValue, defaultMimeType)]

Resolve ==
    /\ mime.stage = "called"
    /\ mime' = [mime EXCEPT
                  !.stage = "returned",
                  !.result = resolveMimeType(mime.mimeType, mime.fileName,
                                             mime.options)]
    /\ UNCHANGED <<db, commits, hfSettings, pc, input, local, resp, log, hist,
                   firstResp, committed, norm>>

MimeNext == Resolve

MimeSpec == MimeInit /\ [][MimeNext]_vars

----------------------------------------------------------------------------
(* Claims *)

\* the methods of the backend client
BackendOps == {"uploadFilesInSingleCommit", "uploadFile"}

\* the positions in r's log of the calls whose name is in ops
CallsOf(r, ops) == {k \in 1..Len(log[r]) : log[r][k].op \in ops}

\* the decoded size of an entry's content, -1 when it does not decode
DecodedSize(fileInput) ==
    LET base64Data == normalizeContentBase64(fileInput.contentBase64)
    IN  IF base64Data.ok /\ decodeBase64ToUint8Array(base64Data.value).ok
        THEN decodeBase64ToUint8Array(base64Data.value).value
        ELSE -1

RECURSIVE SumOfSizes(_, _)
SumOfSizes(files, n) ==
    IF n = 0 THEN 0 ELSE SumOfSizes(files, n - 1) + DecodedSize(files[n])

\* entry i of the request has a legal name under a legal folder
Resolves(in, i) ==
    /\ normalizeUploadFolder(in.uploadFolder).ok
    /\ normalizeFileName(in.files[i].name).ok

\* the full target path entry i resolves to
TargetPath(in, i) ==
    FullId(normalizeUploadFolder(in.uploadFolder).value,
           normalizeFileName(in.files[i].name).value)

\* the request is well-formed up to its files: lines 233-291 let it through
WellFormed(in) ==
    /\ in.authorized /\ in.json /\ in.filesIsArray
    /\ Len(in.files) \in 1..maxFiles
    /\ ~RequestIdRejected(in.requestId)
    /\ normalizeUploadFolder(in.uploadFolder).ok

\* the batch passes validation as the data model states it
ValidBatch(in) ==
    /\ WellFormed(in)
    /\ \A i \in 1..Len(in.files) :
          /\ Resolves(in, i)
          /\ ~StartsWith(TargetPath(in, i), ReservedPrefix)
          /\ DecodedSize(in.files[i]) \in 1..maxSingleFileSize
    /\ SumOfSizes(in.files, Len(in.files)) <= maxTotalSize
    /\ \A i, j \in 1..Len(in.files) :
          i # j => TargetPath(in, i) # TargetPath(in, j)

\* r's request was answered by the ledger, or failed channel selection
AnsweredBeforeValidation(r) ==
    IsReplay(resp[r]) \/ Code(resp[r]) = "CHANNEL_NOT_FOUND"

Carries(r, id) == input[r].json /\ input[r].requestId = Str(id)

\* r's response repeats the files and commitId of the success body `first`
RepeatsFirst(r, first) ==
    /\ IsSuccess(resp[r])
    /\ resp[r].body.files = first.files
    /\ resp[r].body.commitId = first.commitId
    /\ IsReplay(resp[r]) /\ resp[r].body.idempotent

\* C2 as stated: after a batch carrying R has completed successfully, every
\* later request carrying R returns the files and commitId of the first
\* response, flagged as a replay, and submits no backend transaction.
C2_EveryLaterRequestReplays ==
    \A r \in Req : \A id \in RequestIds :
        (pc[r] = "done" /\ Carries(r, id) /\ hist[r].priorSuccess # <<>>)
            => /\ RepeatsFirst(r, hist[r].priorSuccess[1])
               /\ CallsOf(r, BackendOps) = {}

\* C2 amended: with requests handled one after the other, after a batch
\* carrying R has completed successfully no later request carrying R submits a
\* backend transaction, and every later request carrying R that passes the
\* checks made before the ledger lookup (authorized, files a non-empty array
\* of at most maxFiles entries, legal requestId and uploadFolder) returns the
\* files and commitId of the first response, flagged as a replay.
C2_AdmittedLaterRequestReplays ==
    \A r \in Req : \A id \in RequestIds :
        (Carries(r, id) /\ hist[r].priorSuccess # <<>>)
            => /\ CallsOf(r, BackendOps) = {}
               /\ (pc[r] = "done" /\ WellFormed(input[r]))
                     => RepeatsFirst(r, hist[r].priorSuccess[1])

\* a request carrying R was answered from the ledger after R's first success,
\* with files of its own that differ from the first batch's
C2_Witness ==
    \E r \in Req : \E id \in RequestIds :
        /\ pc[r] = "done" /\ Carries(r, id) /\ hist[r].priorSuccess # <<>>
        /\ RepeatsFirst(r, hist[r].priorSuccess[1])
        /\ Len(input[r].files) # Len(resp[r].body.files)

\* C3: once the backend transaction of a request carrying R has succeeded, no
\* later request carrying R submits another backend transaction, whatever
\* happened in the first request after the commit.
C3_NoSecondCommit ==
    \A r \in Req : \A id \in RequestIds :
        (Carries(r, id) /\ hist[r].priorCommit) => CallsOf(r, BackendOps) = {}

\* the backend holds data written for r's batch: its transaction is
\* registered, or bytes are staged without one
BackendHoldsData(r) ==
    \E k \in CallsOf(r, BackendOps) : log[r][k].result \in {"ok", "staged"}

\* C4: every request ends in a success listing as many files as the input or
\* fails as a whole, and a failure while the backend holds data written for
\* the batch is always classified PARTIAL_UPLOAD_NOT_COMMITTED.
C4_NoUnclassifiedPartialSuccess ==
    \A r \in Req :
        pc[r] = "done" =>
            \/ /\ IsSuccess(resp[r])
               /\ Len(resp[r].body.files) = Len(input[r].files)
            \/ /\ ~IsSuccess(resp[r])
               /\ BackendHoldsData(r)
                     => Code(resp[r]) = "PARTIAL_UPLOAD_NOT_COMMITTED"

\* C5: whenever the backend call fails with the commit-stage marker, the
\* response is PARTIAL_UPLOAD_NOT_COMMITTED with status 502 and lists every
\* staged file, whatever HTTP status the error carries.
C5_CommitStageIsPartial ==
    \A r \in Req :
        (pc[r] = "done"
         /\ \E k \in CallsOf(r, BackendOps) : log[r][k].result = "staged")
            => /\ Code(resp[r]) = "PARTIAL_UPLOAD_NOT_COMMITTED"
               /\ resp[r].status = 502
               /\ resp[r].body.uploadedFiles = StagedFiles(local[r].preparedFiles)

\* the calls that write: to the backend, and to the store
WritingOps == BackendOps \cup {"db.put"}

\* C6: a request rejected by input validation (answered INVALID_REQUEST) has
\* made no backend call and has written no index record and no ledger entry.
C6_ValidationTouchesNothing ==
    \A r \in Req :
        (pc[r] = "done" /\ Code(resp[r]) = "INVALID_REQUEST")
            => CallsOf(r, WritingOps) = {}

\* a batch was rejected at its second entry, after the first was prepared
C6_Witness ==
    \E r \in Req :
        /\ pc[r] = "done" /\ Code(resp[r]) = "INVALID_REQUEST"
        /\ resp[r].body.error \in {"duplicate path", "name reserved",
                                   "exceeds total size"}
        /\ Len(input[r].files) = 2
        /\ CallsOf(r, WritingOps) = {}

\* an entry of the request is invalid or over budget, the request being
\* well-formed otherwise
HasInvalidEntry(in) == WellFormed(in) /\ ~ValidBatch(in)

\* the calls that reach an external collaborator after authorization
ExternalOps ==
    BackendOps \cup {"db.get", "db.delete", "db.put", "fetchUploadConfig",
                     "getIPAddress", "fetchSecurityConfig", "moderateContent"}

\* C7: a batch containing an invalid file entry is answered INVALID_REQUEST
\* before any call to an external collaborator (ledger lookup, configuration
\* fetch, address lookup, backend), whatever the ledger and the configuration hold.
C7_InvalidEntryRejectedFirst ==
    \A r \in Req :
        (pc[r] = "done" /\ HasInvalidEntry(input[r]))
            => /\ Code(resp[r]) = "INVALID_REQUEST"
               /\ CallsOf(r, ExternalOps) = {}

\* two entries of the request resolve to the same full target path
HasDuplicate(in) ==
    /\ in.json /\ in.filesIsArray
    /\ \E i, j \in 1..Len(in.files) :
          /\ i # j
          /\ Resolves(in, i) /\ Resolves(in, j)
          /\ TargetPath(in, i) = TargetPath(in, j)

Distinct(paths) ==
    \A i, j \in 1..Len(paths) : i # j => paths[i] # paths[j]

LegalEntries(in) ==
    /\ in.authorized /\ in.json /\ in.filesIsArray /\ Len(in.files) > 0
    /\ ~RequestIdRejected(in.requestId)
    /\ normalizeUploadFolder(in.uploadFolder).ok
    /\ \A i \in 1..Len(in.files) :
          /\ Resolves(in, i)
          /\ ~StartsWith(TargetPath(in, i), ReservedPrefix)
          /\ DecodedSize(in.files[i]) >= 0
    /\ \A i, j \in 1..Len(in.files) :
          i # j => TargetPath(in, i) # TargetPath(in, j)

\* the budget as section 4.2 states it, on decoded sizes
WithinBudget(in) ==
    /\ Len(in.files) <= maxFiles
    /\ \A i \in 1..Len(in.files) :
          /\ DecodedSize(in.files[i]) >= 1
          /\ DecodedSize(in.files[i]) <= maxSingleFileSize
          /\ SumOfSizes(in.files, i) <= maxTotalSize

C10_FolderNormalizationIdempotent ==
    norm.stage = "twice" =>
        norm.twice.ok /\ norm.twice.value = norm.once.value

\* the HTTP status section 7 fixes for each error code
StatusOf ==
    [INVALID_REQUEST |-> 400, CHANNEL_NOT_FOUND |-> 400, AUTH_ERROR |-> 401,
     RATE_LIMIT |-> 429, PARTIAL_UPLOAD_NOT_COMMITTED |-> 502,
     INTERNAL_ERROR |-> 500]

\* call k of r threw inside the moderation try block of lines 460-472
Swallowed(r, k) ==
    \/ log[r][k].op = "moderateContent"
    \/ /\ k > 1 /\ log[r][k].op = "db.put"
       /\ log[r][k - 1].op = "moderateContent" /\ log[r][k - 1].result = "ok"

\* call k of r threw and the top-level catch of lines 497-500 took the error
CaughtAtTopLevel(r, k) == log[r][k].result # "ok" /\ ~Swallowed(r, k)

\* C11: every failure response carries one of the six error codes and the HTTP
\* status fixed for it, and every error that reaches the top-level catch ends
\* the request with exactly such a failure response (the call that threw is the
\* handler's last).
C11_StatusFixedPerCode ==
    \A r \in Req :
        /\ (pc[r] = "done" /\ ~IsSuccess(resp[r]))
              => /\ Code(resp[r]) \in DOMAIN StatusOf
                 /\ resp[r].status = StatusOf[Code(resp[r])]
        /\ \A k \in 1..Len(log[r]) :
              CaughtAtTopLevel(r, k)
                 => /\ k = Len(log[r])
                    /\ pc[r] = "done" /\ ~IsSuccess(resp[r])
                    /\ Code(resp[r]) \in DOMAIN StatusOf

\* a backend error was answered AUTH_ERROR with status 401
C11_Witness ==
    \E r \in Req :
        /\ pc[r] = "done" /\ Code(resp[r]) = "AUTH_ERROR" /\ resp[r].status = 401
        /\ \E k \in CallsOf(r, BackendOps) : CaughtAtTopLevel(r, k)

\* entry i of r's response names input i: its normalized name, and its full
\* target path under the normalized folder
NamesInput(r, i) ==
    LET fileName == normalizeFileName(input[r].files[i].name).value
        folder == normalizeUploadFolder(input[r].uploadFolder).value
    IN  /\ resp[r].body.files[i].name = fileName
        /\ resp[r].body.files[i].fullId = FullId(folder, fileName)

\* r's response lists r's input files in input order, with one commitId
ListsInputFiles(r) ==
    /\ Len(resp[r].body.files) = Len(input[r].files)
    /\ \A i \in 1..Len(input[r].files) : NamesInput(r, i)
    /\ resp[r].body.commitId \in 1..commits

\* C12 as stated: in a success response the files list has one entry per input
\* file in input order, entry i carrying the normalized name of input i and
\* its full target path, together with a single commitId.
C12_SuccessListsInputFiles ==
    \A r \in Req :
        (pc[r] = "done" /\ IsSuccess(resp[r])) => ListsInputFiles(r)

\* C12 amended: in a success response that is not a ledger replay the files
\* list has one entry per input file in input order, entry i carrying the
\* normalized name of input i and fullId folder/name (name when the normalized
\* folder is empty), together with a single commitId; a replay lists the
\* files of the stored response instead.
C12_FreshSuccessListsInputFiles ==
    \A r \in Req :
        (pc[r] = "done" /\ IsSuccess(resp[r]))
            => IF IsReplay(resp[r])
               THEN \E id \in RequestIds :
                       /\ Carries(r, id) /\ hist[r].priorSuccess # <<>>
                       /\ resp[r].body.files = hist[r].priorSuccess[1].files
               ELSE ListsInputFiles(r)

\* a batch of two files under folder "/d/", one name needing a trim, succeeded
C12_Witness ==
    \E r \in Req :
        /\ pc[r] = "done" /\ IsSuccess(resp[r]) /\ ~IsReplay(resp[r])
        /\ input[r].files = FolderBatch
        /\ resp[r].body.files[1].fullId = <<"d", "/", "a">>
        /\ resp[r].body.files[2].fullId = <<"d", "/", "b">>

\* C13: every request attempts the backend transaction at most once: a backend
\* call that fails is the handler's last call, and a failure with status 429
\* is answered RATE_LIMIT with the retry-after hint the error carried (none
\* when it carried none).
C13_NoRetryAfterFailure ==
    \A r \in Req :
        /\ Cardinality(CallsOf(r, BackendOps)) <= 1
        /\ \A k \in CallsOf(r, BackendOps) :
              log[r][k].result # "ok"
                 => /\ k = Len(log[r]) /\ pc[r] = "done"
                    /\ local[r].caught # <<>>
                    /\ local[r].caught[1].status = 429
                          => /\ Code(resp[r]) = "RATE_LIMIT"
                             /\ resp[r].body.retryAfterSeconds =
                                   local[r].caught[1].retryAfterSeconds

\* a transaction submission failed with status 429 and a hint of 30 seconds
C13_Witness ==
    \E r \in Req :
        /\ pc[r] = "done" /\ Code(resp[r]) = "RATE_LIMIT"
        /\ local[r].caught # <<>> /\ local[r].caught[1].retryAfterSeconds = 30
        /\ resp[r].body.retryAfterSeconds = 30
        /\ Cardinality(CallsOf(r, BackendOps)) = 1

\* r's request carries id and its backend transaction is registered
CommittedFor(r, id) ==
    /\ Carries(r, id)
    /\ \E k \in CallsOf(r, BackendOps) : log[r][k].result = "ok"

\* C14: at most one backend transaction is submitted per request identifier,
\* also when two requests carrying the identifier are handled concurrently: a
\* request whose transaction is registered did not start after another
\* transaction for its identifier, and no other request in flight has one.
C14_OneTransactionPerRequestId ==
    \A id \in RequestIds : \A r \in Req :
        CommittedFor(r, id)
            => /\ ~hist[r].priorCommit
               /\ \A other \in Req \ {r} : ~CommittedFor(other, id)

\* the ledger entry stored for id in store, Absent when there is none
LedgerEntry(store, id) == DbGet(store, IdempotencyKey(Str(id)))

\* C15: a ledger entry is created once and never mutated: once a well-formed
\* entry exists under a key, no step of any request overwrites it with a
\* different value or deletes it.
C15_LedgerEntryNeverMutated ==
    [][\A id \in RequestIds :
          LedgerEntry(db, id).kind = "json"
             => LedgerEntry(db', id) = LedgerEntry(db, id)]_vars

\* call k of r is a completed write of r's ledger entry
LedgerWrite(r, k) ==
    /\ log[r][k].op = "db.put" /\ log[r][k].result = "ok"
    /\ log[r][k].arg = local[r].idempotencyKey
    /\ local[r].idempotencyKey # <<>>

\* r's request carries id, no request carrying id had succeeded when r started
NovelFor(r, id) == Carries(r, id) /\ hist[r].priorSuccess = <<>>

\* C16: the ledger is written only by a request that ends in a success
\* response; as long as no request carrying an identifier has succeeded, no
\* well-formed ledger entry exists for it, so a request reusing the identifier
\* of failed requests is processed as novel: it is not answered by a replay,
\* a valid batch is committed once a channel resolves, and its success stores
\* its own response.
C16_LedgerWrittenOnlyOnSuccess ==
    \A r \in Req :
        /\ \A k \in 1..Len(log[r]) :
              LedgerWrite(r, k)
                 => /\ k = Len(log[r]) /\ pc[r] = "done"
                    /\ IsSuccess(resp[r]) /\ ~IsReplay(resp[r])
        /\ \A id \in RequestIds :
              /\ firstResp[id] = <<>> => LedgerEntry(db, id).kind # "json"
              /\ (NovelFor(r, id) /\ pc[r] = "done")
                    => /\ ~IsReplay(resp[r])
                       /\ (ValidBatch(input[r])
                           /\ Code(resp[r]) # "CHANNEL_NOT_FOUND")
                             => Cardinality(CallsOf(r, BackendOps)) = 1
                       /\ IsSuccess(resp[r])
                             => LedgerEntry(db, id) =
                                   JsonStringify(resp[r].body)

\* a request reusing the identifier of a request that failed after its commit
\* was committed and stored its own response
C16_Witness ==
    \E r \in Req : \E id \in RequestIds :
        /\ NovelFor(r, id) /\ hist[r].priorCommit
        /\ pc[r] = "done" /\ IsSuccess(resp[r])
        /\ LedgerEntry(db, id) = JsonStringify(resp[r].body)

\* what r's ledger lookup returned is a stored value that is not a response
FoundCorrupt(r) == local[r].existing.kind \notin {"absent", "json"}

\* r is past its ledger lookup and the deletion that follows it
PastLookup(r) == pc[r] \notin {"idle", "lookup", "delete"}

\* C17: a request whose ledger lookup returns a stored value that does not
\* parse as a structured response deletes the entry and goes on as on a miss:
\* it is never answered with the stored value, and a valid batch is committed
\* once a channel resolves.
C17_CorruptEntryIsAMiss ==
    \A r \in Req :
        (FoundCorrupt(r) /\ PastLookup(r))
            => /\ \E k \in CallsOf(r, {"db.delete"}) :
                     log[r][k].arg = local[r].idempotencyKey
               /\ pc[r] = "done"
                     => /\ "foreign" \notin DOMAIN resp[r].body
                        /\ ~IsReplay(resp[r])
                        /\ (ValidBatch(input[r])
                            /\ Code(resp[r]) # "CHANNEL_NOT_FOUND")
                              => Cardinality(CallsOf(r, BackendOps)) = 1

\* the channel has the token and the repo a transaction needs
Usable(channel) == channel.token # "" /\ channel.repo # ""

\* the request asks for a channel by name
Named(channelName) == channelName.t = "string" /\ channelName.s # <<>>

\* the channels section 4.4 allows as the resolution of channelName
Allowed(settings, channelName) ==
    LET channels == settings.channels
    IN  IF Named(channelName)
        THEN {channels[i] : i \in {j \in 1..Len(channels) :
                 /\ channels[j].name = channelName.s
                 /\ \A k \in 1..(j - 1) : channels[k].name # channelName.s}}
        ELSE IF settings.loadBalance
        THEN {channels[i] : i \in 1..Len(channels)}
        ELSE {channels[i] : i \in 1..Len(channels) \cap {1}}

\* r's handler has got the upload configuration
PastConfig(r) == CallsOf(r, {"fetchUploadConfig"}) # {}

\* r's handler has resolved a channel
Selected(r) == local[r].hfChannel # <<>>

\* C18: channel selection resolves one configured channel or fails with
\* CHANNEL_NOT_FOUND: the resolved channel is the one of the requested name,
\* the first configured one without a name and without load balancing, or some
\* member of the list with load balancing, and has token and repo; the request
\* fails with CHANNEL_NOT_FOUND exactly when there is no such channel or the
\* one drawn lacks token or repo; no backend call is made without a resolved,
\* configured channel that has both.
C18_ChannelSelection ==
    \A r \in Req :
        LET allowed == Allowed(hfSettings, input[r].channelName)
        IN  /\ Selected(r)
                  => /\ local[r].hfChannel[1] \in allowed
                     /\ Usable(local[r].hfChannel[1])
            /\ (pc[r] = "done" /\ Code(resp[r]) = "CHANNEL_NOT_FOUND")
                  => /\ ~Selected(r)
                     /\ \/ hfSettings.loadBalance /\ ~Named(input[r].channelName)
                        \/ \A channel \in allowed : ~Usable(channel)
                     /\ \/ allowed = {}
                        \/ \E channel \in allowed : ~Usable(channel)
            /\ (PastConfig(r) /\ ~Selected(r))
                  => pc[r] = "done" /\ Code(resp[r]) = "CHANNEL_NOT_FOUND"
            /\ CallsOf(r, BackendOps) # {} => Selected(r)

\* a request naming the second configured channel was committed on it
C18_Witness ==
    \E r \in Req :
        /\ input[r].channelName = Str(<<"c1">>)
        /\ Len(hfSettings.channels) = 2
        /\ hfSettings.channels[2].name = <<"c1">>
        /\ Selected(r) /\ local[r].hfChannel[1].name = <<"c1">>
        /\ \E k \in CallsOf(r, BackendOps) : log[r][k].result = "ok"

\* the positions in r's log of the writes of the index record of fullId
IndexWrites(r, fullId) ==
    {k \in CallsOf(r, {"db.put"}) : log[r][k].arg = fullId}

\* the positions in r's log of the writes of index records
AllIndexWrites(r) ==
    {k \in CallsOf(r, {"db.put"}) : log[r][k].arg # local[r].idempotencyKey}

\* C19: index records are written only after the transaction has succeeded,
\* once per prepared file and at most once more, after the classifier has
\* answered; a file is added to the response only after its first index write
\* has completed, so every file named in a success response has an index
\* record under its full target path.
C19_IndexAfterCommit ==
    \A r \in Req :
        /\ \A k \in AllIndexWrites(r) :
              /\ \E j \in CallsOf(r, BackendOps) : j < k /\ log[r][j].result = "ok"
              /\ \E i \in 1..Len(local[r].preparedFiles) :
                    local[r].preparedFiles[i].fullId = log[r][k].arg
        /\ \A i \in 1..Len(local[r].preparedFiles) :
              LET writes == IndexWrites(r, local[r].preparedFiles[i].fullId)
              IN  /\ Cardinality(writes) <= 2
                  /\ \A k \in writes :
                        (\E j \in writes : j < k)
                           => /\ log[r][k - 1].op = "moderateContent"
                              /\ log[r][k - 1].result = "ok"
        /\ \A i \in 1..Len(local[r].responseFiles) :
              \E k \in IndexWrites(r, local[r].responseFiles[i].fullId) :
                  log[r][k].result = "ok"
        /\ (pc[r] = "done" /\ IsSuccess(resp[r]))
              => \A i \in 1..Len(resp[r].body.files) :
                    resp[r].body.files[i].fullId \in DOMAIN db

\* a batch of maxFiles files succeeded with one file's record written twice
C19_Witness ==
    \E r \in Req :
        /\ pc[r] = "done" /\ IsSuccess(resp[r]) /\ ~IsReplay(resp[r])
        /\ Len(resp[r].body.files) = maxFiles
        /\ \E i \in 1..maxFiles :
              Cardinality(IndexWrites(r, resp[r].body.files[i].fullId)) = 2
        /\ \A i \in 1..maxFiles : resp[r].body.files[i].fullId \in DOMAIN db

\* call k of r is a moderation step that failed: the classifier, or the
\* second write of the record
ModerationFailed(r, k) == log[r][k].result # "ok" /\ Swallowed(r, k)

\* the prepared file of r stored under fullId
PreparedAt(r, fullId) ==
    LET i == CHOOSE j \in 1..Len(local[r].preparedFiles) :
                 local[r].preparedFiles[j].fullId = fullId
    IN  local[r].preparedFiles[i]

\* the record the first write of line 457 stores for the file
FirstWrite(r, fullId) ==
    [value |-> EmptyValue,
     metadata |-> <<Metadata(PreparedAt(r, fullId), local[r].hfChannel[1], "None")>>]

\* C20: a failure of moderation for a file (the classifier throws, or the
\* second write does) never fails the request: a request that ends in failure
\* was ended by another call, a request in which nothing else fails ends in
\* the success response listing all files, and the record of the file keeps
\* the content of its first write.
C20_ModerationFailureSwallowed ==
    \A r \in Req :
        /\ \A k \in 1..Len(log[r]) :
              ModerationFailed(r, k)
                 => /\ db[log[r][k].arg] = FirstWrite(r, log[r][k].arg)
                    /\ (pc[r] = "done" /\ ~IsSuccess(resp[r]))
                          => CaughtAtTopLevel(r, Len(log[r]))
        /\ (/\ pc[r] = "done"
            /\ (\E k \in 1..Len(log[r]) : ModerationFailed(r, k))
            /\ (\A j \in 1..Len(log[r]) : ~CaughtAtTopLevel(r, j)))
              => /\ IsSuccess(resp[r]) /\ ~IsReplay(resp[r])
                 /\ Len(resp[r].body.files) = Len(input[r].files)

\* moderation failed for a file of a batch of maxFiles files, in the second
\* write, and the batch succeeded
C20_Witness ==
    \E r \in Req :
        /\ pc[r] = "done" /\ IsSuccess(resp[r]) /\ ~IsReplay(resp[r])
        /\ Len(resp[r].body.files) = maxFiles
        /\ \E k \in CallsOf(r, {"db.put"}) : ModerationFailed(r, k)

\* the record stored under key is an index record: it carries file metadata
IsIndexRecord(store, key) == store[key].metadata # <<>>

\* C21: no index record is stored under a key that begins with the reserved
\* prefix and every ledger entry is stored under one that does: the key of
\* every write of an index record lies outside the reserved namespace, the key
\* of every ledger write lies inside it, so the two kinds of write never meet
\* on a key.
C21_ReservedNamespaceSeparatesKeys ==
    /\ \A key \in DOMAIN db :
          IsIndexRecord(db, key) <=> ~StartsWith(key, ReservedPrefix)
    /\ \A r \in Req : \A k \in CallsOf(r, {"db.put"}) :
          IF log[r][k].arg = local[r].idempotencyKey
          THEN StartsWith(log[r][k].arg, ReservedPrefix)
          ELSE /\ ~StartsWith(log[r][k].arg, ReservedPrefix)
               /\ \E i \in 1..Len(local[r].preparedFiles) :
                     log[r][k].arg = local[r].preparedFiles[i].fullId

\* the store holds an index record and a ledger entry, written by a request
\* that followed an earlier one
C21_Witness ==
    /\ \E key \in DOMAIN db : IsIndexRecord(db, key)
    /\ \E id \in RequestIds : LedgerEntry(db, id).kind = "json"
    /\ \E r \in Req : pc[r] = "done" /\ hist[r].priorCommit
                       /\ AllIndexWrites(r) # {}

\* the payload of entry i as the size checks and atob receive it
Base64Of(in, i) == normalizeContentBase64(in.files[i].contentBase64)

\* every entry of the request carries a payload that decodes
Decodable(in) == \A i \in 1..Len(in.files) : DecodedSize(in.files[i]) >= 0

\* the file loop rejected r's batch at one of its three size checks
RejectedOnSize(r) ==
    /\ local[r].caught # <<>>
    /\ local[r].caught[1].message \in
          {"empty content", "exceeds single size", "exceeds total size"}

\* r's file loop has run
PastFileLoop(r) == CallsOf(r, {"getIPAddress"}) # {}

\* C22: for every payload that decodes, padded or not, the estimated size is
\* the number of decoded bytes; so a batch of decodable payloads is rejected at
\* a size check exactly when its decoded sizes break the budget, and no batch
\* with a file of decoded size 0 or above maxSingleFileSize, or a decoded total
\* above maxTotalSize, reaches the commit.
C22_EstimateEqualsDecodedSize ==
    \A r \in Req :
        /\ \A i \in 1..Len(input[r].files) :
              (Base64Of(input[r], i).ok /\ DecodedSize(input[r].files[i]) >= 0)
                 => estimateBase64Size(Base64Of(input[r], i).value)
                       = DecodedSize(input[r].files[i])
        /\ (PastFileLoop(r) /\ pc[r] # "address" /\ Decodable(input[r]))
              => (RejectedOnSize(r) <=> ~WithinBudget(input[r]))
        /\ CallsOf(r, BackendOps) # {}
              => /\ \A i \in 1..Len(input[r].files) :
                       DecodedSize(input[r].files[i]) \in 1..maxSingleFileSize
                 /\ SumOfSizes(input[r].files, Len(input[r].files))
                       <= maxTotalSize

\* a batch of a padded and an unpadded payload whose decoded sizes sum to
\* exactly maxTotalSize reached the commit
C22_Witness ==
    \E r \in Req :
        /\ CallsOf(r, BackendOps) # {}
        /\ Len(input[r].files) = 2
        /\ EndsWith(Base64Of(input[r], 1).value, <<"=">>)
        /\ ~EndsWith(Base64Of(input[r], 2).value, <<"=">>)
        /\ SumOfSizes(input[r].files, 2) = maxTotalSize

\* r was answered with the stored response `first`, flagged as a replay
AnsweredFromLedger(r, first) ==
    resp[r] = jsonResponse(("idempotent" :> TRUE) @@ first, 200)

\* the operations that write the store or the backend
MutatingOps == WritingOps \cup {"db.delete"}

\* r's request names a channel that the configuration does not resolve to a
\* usable one
FailsChannelSelection(r) ==
    \A ch \in selectHuggingFaceChannel(hfSettings, input[r].channelName) :
        ch = <<>> \/ ~Usable(ch[1])

\* C23 as stated: a request carrying the identifier of a previously
\* successful batch is answered with that batch's stored response and writes
\* nothing, whatever its files, folder and channel are.
C23_LedgerHitByIdentifierAlone ==
    \A r \in Req : \A id \in RequestIds :
        (pc[r] = "done" /\ Carries(r, id) /\ hist[r].priorSuccess # <<>>)
            => /\ AnsweredFromLedger(r, hist[r].priorSuccess[1])
               /\ CallsOf(r, MutatingOps) = {}

\* C23 amended: with requests handled one after the other, a request carrying
\* the identifier of a previously successful batch writes nothing; if it
\* passes the checks made before the ledger lookup (authorized, files a
\* non-empty array of at most maxFiles entries, legal requestId and
\* uploadFolder) it is answered with the stored response after the lookup
\* alone, even when its file entries, folder or channel differ from the first
\* request's, its entries would fail validation or its channel would not
\* resolve; otherwise it is rejected and the ledger is not consulted.
C23_AdmittedLedgerHitByIdentifierAlone ==
    \A r \in Req : \A id \in RequestIds :
        (pc[r] = "done" /\ Carries(r, id) /\ hist[r].priorSuccess # <<>>)
            => /\ CallsOf(r, MutatingOps) = {}
               /\ IF WellFormed(input[r])
                  THEN /\ AnsweredFromLedger(r, hist[r].priorSuccess[1])
                       /\ [k \in 1..Len(log[r]) |-> log[r][k].op]
                             = <<"userAuthCheck", "db.get">>
                  ELSE /\ Code(resp[r]) \in {"AUTH_ERROR", "INVALID_REQUEST"}
                       /\ CallsOf(r, {"db.get"}) = {}

\* requests carrying the identifier of a successful batch were answered from
\* the ledger although their entries would fail validation, or their channel
\* would not resolve, or their folder differs from the stored files'
C23_Witness ==
    \E r \in Req : \E id \in RequestIds :
        /\ pc[r] = "done" /\ Carries(r, id) /\ hist[r].priorSuccess # <<>>
        /\ AnsweredFromLedger(r, hist[r].priorSuccess[1])
        /\ \/ HasInvalidEntry(input[r])
           \/ FailsChannelSelection(r)

\* the first value of a list of candidates that is not null, null if none
RECURSIVE FirstPresent(_)
FirstPresent(candidates) ==
    IF candidates = <<>> THEN JsNull
    ELSE IF Head(candidates) # JsNull THEN Head(candidates)
    ELSE FirstPresent(Tail(candidates))

\* the declared type is a string that matches MIME_PATTERN once trimmed
ValidType(mimeType) ==
    mimeType.t = "string" /\ MIME_PATTERN(Trim(mimeType.s))

\* the default type of the call: the option, or octet-stream when it is left
\* out
DefaultOf(options) ==
    IF options.defaultMimeType = JsUndefined THEN Str(OCTET_STREAM_PREFIX)
    ELSE options.defaultMimeType

\* the candidates in the order of precedence, the declared type taken as
\* `declared`
Candidates(declared) ==
    << IF ValidType(mime.mimeType) /\ ~isOctetStreamMimeType(mime.mimeType)
       THEN declared ELSE JsNull,
       extractMimeTypeFromDataUrl(mime.options.dataUrlValue),
       inferMimeTypeFromFileName(mime.fileName),
       IF ValidType(mime.mimeType) THEN declared ELSE JsNull,
       DefaultOf(mime.options) >>

\* C24 as stated: resolveMimeType never returns null and returns the first of:
\* the declared type, unchanged, when valid and not octet-stream; the type of
\* the data-URL header; the type inferred from the extension; the declared
\* octet-stream type when valid; the default type.
C24_ResolvePrecedence ==
    mime.stage = "returned"
        => /\ mime.result # JsNull
           /\ mime.result = FirstPresent(Candidates(mime.mimeType))

\* C24 amended: resolveMimeType returns the first of: the declared type with
\* the blanks around it removed, when valid and not octet-stream; the type of
\* the data-URL header; the value the extension table yields; the trimmed
\* declared octet-stream type when valid; the default type. It returns null
\* only when none of the first four exists and the caller passed null as the
\* default type.
C24_ResolvePrecedenceTrimmed ==
    mime.stage = "returned"
        => /\ mime.result = FirstPresent(Candidates(Str(Trim(mime.mimeType.s))))
           /\ mime.result = JsNull
                 => /\ mime.options.defaultMimeType = JsNull
                    /\ ~ValidType(mime.mimeType)
                    /\ extractMimeTypeFromDataUrl(mime.options.dataUrlValue) = JsNull
                    /\ inferMimeTypeFromFileName(mime.fileName) = JsNull

\* a valid declared type written with blanks around it was returned without
\* them although a data URL and an extension offered other types
C24_Witness ==
    /\ mime.stage = "returned"
    /\ ValidType(mime.mimeType) /\ ~isOctetStreamMimeType(mime.mimeType)
    /\ mime.mimeType.s # Trim(mime.mimeType.s)
    /\ extractMimeTypeFromDataUrl(mime.options.dataUrlValue) # JsNull
    /\ inferMimeTypeFromFileName(mime.fileName) # JsNull
    /\ mime.result = Str(Trim(mime.mimeType.s))

============================================================================
